---- MODULE Spec2Model ----
(***************************************************************************)
(* Model of tensorflow_probability/python/experimental/vi/                 *)
(* cascading_flows.py: the substitution registry, the recursive surrogate  *)
(* walker (posterior_generator), the variable-extraction driver and the    *)
(* two-pass construction done by build_cf_surrogate_posterior.             *)
(***************************************************************************)
EXTENDS Integers, Sequences, FiniteSets, TLC

(* ----------------------------- bounds --------------------------------- *)
\* longest model program (number of nodes the prior yields)
MaxN == 2
\* largest num_auxiliary_variables
MaxK == 1
\* rules that may be appended after the four default ones
MaxExtraRules == 2
\* runs of the assembled surrogate program after construction
MaxRuns == 1
\* calls of build_cf_surrogate_posterior
MaxBuilds == 2

(* ----------------------- distribution families ------------------------ *)
Families ==
  {"HalfNormal", "TruncatedNormal", "Uniform", "TransformedDistribution",
   "Exponential", "Gamma", "Chi2", "Normal", "LogNormal"}

\* Python class hierarchy used by isinstance: Exponential derives from Gamma,
\* LogNormal from TransformedDistribution.
SuperClasses(fam) ==
  CASE fam = "Exponential" -> {"Exponential", "Gamma"}
    [] fam = "LogNormal"   -> {"LogNormal", "TransformedDistribution"}
    [] OTHER               -> {fam}

\* A test for the class itself, blind to derived classes.
IsExactType(fam, cls) == cls = fam

IsInstance(fam, cls) == cls \in SuperClasses(fam)

\* Predicate objects a caller may register (plain callables).
Predicates == {"hasLocScale", "isPositive"}

PredicateHolds(pred, fam) ==
  CASE pred = "hasLocScale" -> fam \in {"Normal", "TruncatedNormal", "LogNormal"}
    [] pred = "isPositive"  -> fam \in {"HalfNormal", "Exponential", "Gamma", "Chi2",
                                        "LogNormal"}
    [] OTHER                -> FALSE

\* Classes a caller may register as a type tag.
RegTypes == {"Gamma", "TransformedDistribution"}

\* Substitution functions: the four default lambdas and two custom ones.
DefaultFns == {"toTruncatedNormal", "toShiftedScaledBeta", "toGammaRate", "toGammaDf"}
CustomFns == {"toNormal", "toGamma"}

\* Family of the distribution a substitution function returns.
SubstitutionResult(fn, fam) ==
  CASE fn = "toTruncatedNormal"   -> "TruncatedNormal"
    [] fn = "toShiftedScaledBeta" -> "TransformedDistribution"
    [] fn = "toGammaRate"         -> "Gamma"
    [] fn = "toGammaDf"           -> "Gamma"
    [] fn = "toNormal"            -> "Normal"
    [] fn = "toGamma"             -> "Gamma"
    [] OTHER                      -> fam

(* ------------------------- substitution registry ---------------------- *)
\* A dict entry.  The key is the condition object: a registered predicate
\* object (pred # "") or the lambda that register_cf_substitution_rule
\* wraps around a class (lam > 0, a fresh function object per call).
Rule(pred, lam, cls, fn) == [pred |-> pred, lam |-> lam, cls |-> cls, fn |-> fn]

RuleKey(r) == <<r.pred, r.lam>>

\* condition(distribution)
ConditionHolds(r, fam) ==
  IF r.lam > 0 THEN IsInstance(fam, r.cls) ELSE PredicateHolds(r.pred, fam)

\* Module load: the four register_cf_substitution_rule calls.
DefaultRules ==
  << Rule("", 1, "HalfNormal", "toTruncatedNormal"),
     Rule("", 2, "Uniform", "toShiftedScaledBeta"),
     Rule("", 3, "Exponential", "toGammaRate"),
     Rule("", 4, "Chi2", "toGammaDf") >>

\* Position of a key in the dict, 0 when absent.
PositionOf(reg, key) ==
  IF \E i \in 1..Len(reg) : RuleKey(reg[i]) = key
  THEN CHOOSE i \in 1..Len(reg) : RuleKey(reg[i]) = key
  ELSE 0

\* A store that deletes an existing entry and appends the new one.
DictSetMovingToEnd(reg, r) ==
  Append(SelectSeq(reg, LAMBDA x : RuleKey(x) # RuleKey(r)), r)

\* ASVI_SURROGATE_SUBSTITUTIONS[condition] = substitution_fn on a dict that
\* keeps insertion order: an existing key keeps its position.
DictSet(reg, r) ==
  IF \E i \in 1..Len(reg) : RuleKey(reg[i]) = RuleKey(r)
  THEN [i \in 1..Len(reg) |->
          IF RuleKey(reg[i]) = RuleKey(r) THEN [reg[i] EXCEPT !.fn = r.fn]
          ELSE reg[i]]
  ELSE Append(reg, r)

\* A loop that returns at the first rule that matches.
RECURSIVE as_substituted_first_match_only(_, _)
as_substituted_first_match_only(rules, fam) ==
  IF rules = <<>> THEN fam
  ELSE IF ConditionHolds(Head(rules), fam)
       THEN SubstitutionResult(Head(rules).fn, fam)
       ELSE as_substituted_first_match_only(Tail(rules), fam)

\* for condition, substitution_fn in ASVI_SURROGATE_SUBSTITUTIONS.items():
\*   if condition(distribution): distribution = substitution_fn(distribution)
RECURSIVE as_substituted_distribution(_, _)
as_substituted_distribution(rules, fam) ==
  IF rules = <<>> THEN fam
  ELSE as_substituted_distribution(
         Tail(rules),
         IF ConditionHolds(Head(rules), fam)
         THEN SubstitutionResult(Head(rules).fn, fam)
         ELSE fam)

(* ------------------------------ nodes ---------------------------------- *)
\* A node a model program yields.  kind "joint" has a _model_coroutine
\* (sub is its program); kind "leaf" is a tfd.Distribution; kind "other" is
\* a distribution-like entity that is neither (it has no _model_coroutine).
\* root is the Root wrapper.
Node(kind, fam, shape, root, sub) ==
  [kind |-> kind, family |-> fam, shape |-> shape, root |-> root, sub |-> sub]

Leaf(fam, shape, root) == Node("leaf", fam, shape, root, <<>>)

\* a scalar root node, a vector node, a matrix-valued node
ScalarRoot == Leaf("HalfNormal", <<>>, TRUE)

LeafNodes ==
  { ScalarRoot,
    Leaf("Normal", <<2>>, FALSE),
    Leaf("Independent", <<2, 3>>, FALSE) }

OtherNode == Node("other", "Pinned", <<>>, FALSE, <<>>)

\* placeholder where there is no node
NoNode == Node("none", "", <<>>, FALSE, <<>>)

\* A joint node whose own program is flat.
NestedNode == Node("joint", "JointDistributionCoroutine", <<>>, FALSE,
                   << Leaf("Normal", <<>>, TRUE) >>)

SeqsUpTo(S, n) == UNION { [1..m -> S] : m \in 0..n }

\* Model programs: what prior._model_coroutine yields, in order.  The flat
\* ones are all sequences of leaves; the others end in one node that is not
\* a leaf.
FlatPrograms == SeqsUpTo(LeafNodes, MaxN)

Programs ==
  FlatPrograms \cup
  { Append(p, n) : p \in SeqsUpTo({ScalarRoot}, MaxN - 1),
                   n \in {OtherNode, NestedNode} }

IsFlat(prog) == \A j \in 1..Len(prog) : prog[j].kind = "leaf"

IsNested(prog) == \E j \in 1..Len(prog) : prog[j].kind = "joint"

JointPrior(prog) ==
  Node("joint", "JointDistributionCoroutine", <<>>, FALSE, prog)

\* What build_cf_surrogate_posterior may be given as prior.
Priors == { JointPrior(p) : p \in Programs } \cup {ScalarRoot, OtherNode}

(* ------------------------------ seeds ---------------------------------- *)
\* seed arguments: 0 stands for seed=None
Seeds == {0, 1}

\* samplers.split_seed(seed): two child seeds derived deterministically
\* (here within 1..4); 0 (seed=None) stays unseeded.
split_seed(s) ==
  IF s = 0 THEN <<0, 0>>
  ELSE << 1 + ((2 * s) % 4), 1 + ((2 * s + 1) % 4) >>

(* ------------------------------ values --------------------------------- *)
\* A sampled value: a tensor, or the list a Split bijector returns.  id is
\* the position, in the pass, of the yielded node it is the sample of.
Values == [isList : BOOLEAN, id : 1..(MaxN + 1)]

\* The generator's local variable global_auxiliary_variables.
Unbound == [st |-> "unbound", v |-> [isList |-> FALSE, id |-> 0]]
NoneVal == [st |-> "none", v |-> [isList |-> FALSE, id |-> 0]]
Bound(v) == [st |-> "value", v |-> v]

(* ------------------------------ state ---------------------------------- *)
VARIABLES
  registry,     \* ASVI_SURROGATE_SUBSTITUTIONS, in insertion order
  nlambda,      \* lambdas created so far by register_cf_substitution_rule
  lastReg,      \* the latest register_cf_substitution_rule call: the rule
                \* it stored and where its key was in the dict before
  subst,        \* the latest direct substitution: argument, result, registry
  pc,           \* where build_cf_surrogate_posterior and its surrogate are
  inputs,       \* arguments of the current build_cf_surrogate_posterior
  builds,       \* calls of build_cf_surrogate_posterior so far
  runs,         \* completed runs of the assembled surrogate program
  gen,          \* locals of the live posterior_generator
  closureVars,  \* flat_variables closed over by posterior_generator
  harvested,    \* flat_variables of _extract_variables_from_coroutine_model
  params,       \* every trainable parameter set constructed, in order
  yielded,      \* nodes yielded by posterior_generator in the current pass
  forwarded,    \* values sent into prior_gen in the current pass
  error,        \* exception that ended the build, "none" otherwise
  result,       \* what build_cf_surrogate_posterior returned
  prev          \* construction record of the previous build

vars == << registry, nlambda, lastReg, subst, pc, inputs, builds, runs, gen,
           closureVars, harvested, params, yielded, forwarded, error, result,
           prev >>

(* --------------------- trainable parameter sets ------------------------ *)
\* chain.Chain of highway-flow layers: the object `variables` refers to.
\* rfrac is residual_fraction_initial_value in tenths.
Param(id, site, width, gate, rfrac, seed) ==
  [id |-> id, site |-> site, layers |-> 3, width |-> width, gate |-> gate,
   rfrac |-> rfrac, seed |-> seed]

\* initial_prior_weight in tenths
PriorWeights == {0, 5, 10}

\* actual_event_shape + num_auxiliary_variables (broadcast add)
AddToEach(shape, k) == [j \in 1..Len(shape) |-> shape[j] + k]

RECURSIVE reduce_prod(_)
reduce_prod(shape) ==
  IF shape = <<>> THEN 1 ELSE Head(shape) * reduce_prod(Tail(shape))

(* ----------------------------- surrogates ------------------------------ *)
\* A surrogate distribution: src is the position of the original node in the
\* prior program (0 for the auxiliary node), dist the distribution that is
\* transformed, vars the bijector, split the Split([-1, k]) width, gaux the
\* auxiliary vector it is pinned to, seed the seed it was built with.
Sur(src, kind, dist, variables, root, split, gaux, seed) ==
  [src |-> src, kind |-> kind, dist |-> dist, vars |-> variables, root |-> root,
   split |-> split, gaux |-> gaux, seed |-> seed]

NoSur == Sur(0, "none", NoNode, 0, FALSE, 0, NoneVal, 0)

\* sample.Sample(normal.Normal(0., 0.1), num_auxiliary_variables)
AuxNoise(k) == Node("leaf", "Sample", <<k>>, FALSE, <<>>)

Success(sur, variables, created) ==
  [err |-> "none", sur |-> sur, vars |-> variables, created |-> created]

Failure(err, created) ==
  [err |-> err, sur |-> NoSur, vars |-> 0, created |-> created]

\* Body of _cf_convex_update_for_base_distribution; construct is the outcome
\* of `variables is None`, newId the identity of the Chain it constructs.
convex_update(construct, dist, ipw, k, gaux, variables, seed, newId) ==
  LET rank == Len(dist.shape)
      int_event_shape == IF rank > 0 THEN dist.shape[1] ELSE 1
      width == reduce_prod(AddToEach(dist.shape, k))
      created == IF construct
                 THEN << Param(newId, "base", width, int_event_shape, ipw, seed) >>
                 ELSE <<>>
      chainVars == IF construct THEN newId ELSE variables
  IN  IF construct /\ rank > 1
      THEN Failure("TypeError", <<>>)           \* int() of a 2-element tensor
      ELSE IF k > 0 /\ gaux.st # "value"
      THEN Failure("AttributeError", created)   \* None.shape
      ELSE Success(Sur(0, "base", dist, chainVars, FALSE, k,
                       IF k > 0 THEN gaux ELSE NoneVal, seed),
                   chainVars, created)

\* A builder that constructs a new Chain on every call.
cf_convex_update_always_constructing(dist, ipw, k, gaux, variables, seed, newId) ==
  convex_update(TRUE, dist, ipw, k, gaux, variables, seed, newId)

\* _cf_convex_update_for_base_distribution; variables = 0 is None.
cf_convex_update_for_base_distribution(dist, ipw, k, gaux, variables, seed, newId) ==
  convex_update(variables = 0, dist, ipw, k, gaux, variables, seed, newId)

\* dist = _set_name(_as_substituted_distribution(dist), name=_get_name(dist))
Substituted(dist) ==
  LET fam == as_substituted_distribution(registry, dist.family)
  IN  IF fam = dist.family THEN dist
      ELSE Node("leaf", fam, dist.shape, dist.root, <<>>)

\* hasattr(dist, '_model_coroutine')
HasModelCoroutine(dist) == dist.kind = "joint"

(* ------------------------- posterior_generator ------------------------- *)
GenAt(at, idx, i, seed, gaux) ==
  [at |-> at, idx |-> idx, i |-> i, seed |-> seed, gaux |-> gaux]

NoGen == GenAt("none", 0, 0, 0, Unbound)

\* A default seed taken from module-level state instead of the argument.
GeneratorSeedFromCounter(seed) ==
  IF seed = 0 THEN 0 ELSE 1 + ((seed + Len(params)) % 4)

\* def posterior_generator(seed=seed): the default is the seed the enclosing
\* _cf_surrogate_for_joint_distribution call was given.
GeneratorSeed(seed) == seed

Yield(sur, variables, created, g) ==
  [out |-> "yield", err |-> "none", sur |-> sur, vars |-> variables,
   created |-> created, gen |-> g]

Raise(err, created) ==
  [out |-> "raise", err |-> err, sur |-> NoSur, vars |-> 0,
   created |-> created, gen |-> NoGen]

Return ==
  [out |-> "return", err |-> "none", sur |-> NoSur, vars |-> 0,
   created |-> <<>>, gen |-> GenAt("done", 0, 0, 0, Unbound)]

RECURSIVE cf_surrogate_for_distribution(_, _, _, _, _, _, _)

\* One iteration of `while True` up to its yield (lines 375-395), with dist
\* the node prog[idx] just obtained from prior_gen.  base is the
\* functools.partial (initial_prior_weight, num_auxiliary_variables), k the
\* joint's own num_auxiliary_variables, flat its flat_variables.
walker_step(prog, idx, k, base, flat, i, seed, gaux, newId) ==
  LET was_root == prog[idx].root
      dist == [prog[idx] EXCEPT !.root = FALSE]
      ss == split_seed(seed)
      g == GenAt("node", idx, i, ss[1], gaux)
  IN  IF flat # <<>> /\ i + 1 > Len(flat) THEN Raise("IndexError", <<>>)
      ELSE IF gaux.st = "unbound" THEN Raise("UnboundLocalError", <<>>)
      ELSE LET r == cf_surrogate_for_distribution(
                      dist, base, IF flat # <<>> THEN flat[i + 1] ELSE 0,
                      0, gaux, ss[2], newId)
           IN  IF r.err # "none" THEN Raise(r.err, r.created)
               ELSE Yield([r.sur EXCEPT !.src = idx,
                                        !.root = (was_root /\ k = 0)],
                          r.vars, r.created, g)

\* A first resume that leaves the slot counter at 0 after the auxiliary node.
posterior_generator_start_without_shift(prog, k, base, flat, seed, newId) ==
  IF prog = <<>> THEN Raise("RuntimeError", <<>>)
  ELSE IF k > 0
  THEN LET construct == flat = <<>>
           variables == IF construct THEN newId ELSE flat[1]
           created == IF construct
                      THEN << Param(newId, "aux", k, 0, 5, seed) >> ELSE <<>>
       IN  Yield(Sur(0, "aux", AuxNoise(k), variables, TRUE, 0, NoneVal, seed),
                 variables, created, GenAt("aux", 1, 0, seed, Unbound))
  ELSE walker_step(prog, 1, k, base, flat, 0, seed, Unbound, newId)

\* First resume of posterior_generator (lines 331-371, then the loop).
posterior_generator_start(prog, k, base, flat, seed, newId) ==
  IF prog = <<>> THEN Raise("RuntimeError", <<>>)  \* StopIteration in next(prior_gen)
  ELSE IF k > 0
  THEN LET construct == flat = <<>>
           variables == IF construct THEN newId ELSE flat[1]
           created == IF construct
                      THEN << Param(newId, "aux", k, 0, 5, seed) >> ELSE <<>>
       IN  Yield(Sur(0, "aux", AuxNoise(k), variables, TRUE, 0, NoneVal, seed),
                 variables, created, GenAt("aux", 1, 1, seed, Unbound))
  ELSE walker_step(prog, 1, k, base, flat, 0, seed, Unbound, newId)

\* _cf_surrogate_for_joint_distribution reached from the walker, for a node
\* that is itself a model program.  Without variables it harvests by
\* resuming its own posterior_generator; with num_auxiliary_variables = 0
\* that first resume always raises, so the drive has no further step.
cf_surrogate_for_joint_distribution(dist, base, variables, k, gaux, seed, newId) ==
  IF variables = 0
  THEN LET first == posterior_generator_start(dist.sub, k, base, <<>>, seed, newId)
       IN  IF first.out = "raise" THEN Failure(first.err, first.created)
           ELSE Failure("NestedHarvestYield", first.created)
  ELSE Success(Sur(0, "joint", dist, variables, FALSE, 0, gaux, seed),
               variables, <<>>)

\* A dispatch that rejects what is neither a model program nor a leaf.
cf_surrogate_rejecting_unknown_kinds(dist, base, variables, k, gaux, seed, newId) ==
  LET d == Substituted(dist)
  IN  IF HasModelCoroutine(d)
      THEN cf_surrogate_for_joint_distribution(d, base, variables, k, gaux, seed, newId)
      ELSE IF d.kind = "other" THEN Failure("ValueError", <<>>)
      ELSE cf_convex_update_for_base_distribution(
             d, base.ipw, base.k, gaux, variables, seed, newId)

\* _cf_surrogate_for_distribution: substitute, then dispatch.
cf_surrogate_for_distribution(dist, base, variables, k, gaux, seed, newId) ==
  LET d == Substituted(dist)
  IN  IF HasModelCoroutine(d)
      THEN cf_surrogate_for_joint_distribution(d, base, variables, k, gaux, seed, newId)
      ELSE cf_convex_update_for_base_distribution(
             d, base.ipw, base.k, gaux, variables, seed, newId)

\* A forwarding step that sends the received value itself, squeezed for a
\* node with a zero-rank event.
ForwardedValueUnsplit(dist, v) ==
  [recv |-> v, id |-> v.id, part |-> "whole",
   squeezed |-> (v.isList /\ Len(dist.shape) = 0)]

\* Value passed to prior_gen.send (lines 396-403): dist is the node the
\* walker holds, v (recv) the value received at the yield; part tells whether
\* value_out or value_out[0] is sent, squeezed whether tf.squeeze(., -1) is
\* applied to it.
ForwardedValue(dist, v) ==
  IF v.isList
  THEN IF Len(dist.shape) = 0
       THEN [recv |-> v, id |-> v.id, part |-> "elem0", squeezed |-> TRUE]
       ELSE [recv |-> v, id |-> v.id, part |-> "elem0", squeezed |-> FALSE]
  ELSE [recv |-> v, id |-> v.id, part |-> "whole", squeezed |-> FALSE]

\* A resume that binds the auxiliary vector to whatever value it received.
posterior_generator_resume_rebinding(prog, k, base, flat, g, v, newId) ==
  IF g.at = "aux"
  THEN walker_step(prog, g.idx, k, base, flat, g.i, g.seed, Bound(v), newId)
  ELSE IF g.idx = Len(prog)
       THEN Return
       ELSE walker_step(prog, g.idx + 1, k, base, flat, g.i + 1, g.seed,
                        Bound(v), newId)

\* A later resume of posterior_generator with the value v received at the
\* yield it is suspended on.
posterior_generator_resume(prog, k, base, flat, g, v, newId) ==
  IF g.at = "aux"
  THEN walker_step(prog, g.idx, k, base, flat, g.i, g.seed, Bound(v), newId)
  ELSE IF g.idx = Len(prog)
       THEN Return                  \* prior_gen.send raises StopIteration
       ELSE walker_step(prog, g.idx + 1, k, base, flat, g.i + 1, g.seed,
                        g.gaux, newId)

(* ------------------------- construction records ------------------------ *)
NoInputs == [prior |-> NoNode, k |-> 0, ipw |-> 5, seed |-> 0]

\* functools.partial(_cf_convex_update_for_base_distribution, ...)
BasePartial == [ipw |-> inputs.ipw, k |-> inputs.k]

NoResult == [kind |-> "none", sur |-> NoSur, also_track |-> <<>>,
             structure |-> <<>>]

\* What a yielded node looks like from outside: origin, event shape of the
\* transformed distribution, root tag, initialisation seed.
NodeView(sur) ==
  [src |-> sur.src, kind |-> sur.kind, shape |-> sur.dist.shape,
   root |-> sur.root, seed |-> sur.seed]

Structure(nodes) == [j \in 1..Len(nodes) |-> NodeView(nodes[j])]

NoPrev == [set |-> FALSE, error |-> "none", structure |-> <<>>, run |-> <<>>]

\* The sampled value the driver sends for the j-th yielded node: a Split
\* surrogate samples to a list.
SampleKinds(j, sur) ==
  { v \in Values : v.isList = (sur.split > 0) /\ v.id = j }

(* ------------------------------ actions -------------------------------- *)
Init ==
  /\ registry = DefaultRules
  /\ nlambda = 4
  /\ lastReg = [rule |-> DefaultRules[4], existed |-> FALSE, sizeBefore |-> 3,
                posBefore |-> 0, oldFn |-> ""]
  /\ subst = [arg |-> "", res |-> "", reg |-> <<>>]
  /\ pc = "idle"
  /\ inputs = NoInputs
  /\ builds = 0
  /\ runs = 0
  /\ gen = NoGen
  /\ closureVars = <<>>
  /\ harvested = <<>>
  /\ params = <<>>
  /\ yielded = <<>>
  /\ forwarded = <<>>
  /\ error = "none"
  /\ result = NoResult
  /\ prev = NoPrev

buildVars == << pc, inputs, builds, runs, gen, closureVars, harvested, params,
                yielded, forwarded, error, result, prev >>

\* No generator is being driven.
Quiescent == pc \in {"idle", "returned", "raised"}

\* register_cf_substitution_rule(condition, substitution_fn); cls # "" is a
\* class given as condition, pred # "" a predicate object.
register_cf_substitution_rule(cls, pred, fn) ==
  LET r == IF cls # "" THEN Rule("", nlambda + 1, cls, fn)
           ELSE Rule(pred, 0, "", fn)
      isNew == \A i \in 1..Len(registry) : RuleKey(registry[i]) # RuleKey(r)
  IN  /\ Quiescent
      /\ isNew => Len(registry) < Len(DefaultRules) + MaxExtraRules
      /\ registry' = DictSet(registry, r)
      /\ nlambda' = IF cls # "" THEN nlambda + 1 ELSE nlambda
      /\ lastReg' = [rule |-> r, existed |-> ~isNew,
                      sizeBefore |-> Len(registry),
                      posBefore |-> PositionOf(registry, RuleKey(r)),
                      oldFn |-> IF isNew THEN ""
                                ELSE registry[PositionOf(registry, RuleKey(r))].fn]
      /\ UNCHANGED << subst, buildVars >>

\* A substitution that memoises its answer as one more rule.
SubstituteMemoising(fam) ==
  LET res == as_substituted_distribution(registry, fam)
  IN  /\ Quiescent
      /\ subst' = [arg |-> fam, res |-> res, reg |-> registry]
      /\ registry' = IF res # fam /\ Len(registry) < Len(DefaultRules) + MaxExtraRules
                     THEN Append(registry, Rule("", nlambda + 1, fam, "toNormal"))
                     ELSE registry
      /\ UNCHANGED << nlambda, lastReg, buildVars >>

\* A direct call of _as_substituted_distribution.
Substitute(fam) ==
  /\ Quiescent
  /\ subst' = [arg |-> fam, res |-> as_substituted_distribution(registry, fam),
               reg |-> registry]
  /\ UNCHANGED << registry, nlambda, lastReg, buildVars >>

\* build_cf_surrogate_posterior up to the point where the top-level
\* dispatch either returns (a base prior) or starts the harvest pass.
build_cf_surrogate_posterior(prior, k, ipw, seed) ==
  LET d == Substituted(prior)
      r == cf_surrogate_for_distribution(
             prior, [ipw |-> ipw, k |-> k], 0, k, NoneVal, seed,
             Len(params) + 1)
  IN  /\ inputs' = [prior |-> prior, k |-> k, ipw |-> ipw, seed |-> seed]
      /\ builds' = builds + 1
      /\ prev' = IF builds = 0 THEN NoPrev
                 ELSE [set |-> TRUE, error |-> error,
                       structure |-> result.structure,
                       run |-> IF runs > 0 THEN Structure(yielded) ELSE <<>>]
      /\ runs' = 0
      /\ closureVars' = <<>>
      /\ harvested' = <<>>
      /\ yielded' = <<>>
      /\ forwarded' = <<>>
      /\ IF HasModelCoroutine(d)
         THEN /\ pc' = "harvest"
              /\ gen' = GenAt("new", 0, 0, GeneratorSeed(seed), Unbound)
              /\ error' = "none"
              /\ result' = NoResult
              /\ UNCHANGED params
         ELSE /\ gen' = NoGen
              /\ params' = params \o r.created
              /\ error' = r.err
              /\ pc' = IF r.err = "none" THEN "returned" ELSE "raised"
              /\ result' = IF r.err = "none"
                           THEN [kind |-> "base", sur |-> r.sur,
                                 also_track |-> << r.vars >>,
                                 structure |-> << NodeView(r.sur) >>]
                           ELSE NoResult
      /\ UNCHANGED << registry, nlambda, lastReg, subst >>

\* The driver's side of one generator resume in the harvest pass.
HarvestOutcome(o) ==
  /\ params' = params \o o.created
  /\ gen' = o.gen
  /\ CASE o.out = "yield" ->
            /\ harvested' = Append(harvested, o.vars)
            /\ yielded' = Append(yielded, o.sur)
            /\ UNCHANGED << pc, error >>
       [] o.out = "return" ->
            /\ pc' = "harvested"
            /\ UNCHANGED << harvested, yielded, error >>
       [] OTHER ->
            /\ pc' = "raised"
            /\ error' = o.err
            /\ UNCHANGED << harvested, yielded >>

\* _extract_variables_from_coroutine_model: gen = model_fn(); next(gen)
HarvestStart ==
  /\ pc = "harvest"
  /\ gen.at = "new"
  /\ HarvestOutcome(posterior_generator_start(
       inputs.prior.sub, inputs.k, BasePartial, <<>>, gen.seed,
       Len(params) + 1))
  /\ UNCHANGED << registry, nlambda, lastReg, subst, inputs, builds, runs,
                  closureVars, forwarded, result, prev >>

\* A driver step after which the inner program has been sent every value
\* the walker received.
HarvestSendForwardingEveryValue(v) ==
  /\ pc = "harvest"
  /\ gen.at \in {"aux", "node"}
  /\ v \in SampleKinds(Len(yielded), yielded[Len(yielded)])
  /\ forwarded' = Append(forwarded,
                         ForwardedValue(inputs.prior.sub[gen.idx], v))
  /\ HarvestOutcome(posterior_generator_resume(
       inputs.prior.sub, inputs.k, BasePartial, <<>>, gen, v,
       Len(params) + 1))
  /\ UNCHANGED << registry, nlambda, lastReg, subst, inputs, builds, runs,
                  closureVars, result, prev >>

\* _extract_variables_from_coroutine_model: sample the yielded node and
\* gen.send(sampled_value)
HarvestSend(v) ==
  /\ pc = "harvest"
  /\ gen.at \in {"aux", "node"}
  /\ v \in SampleKinds(Len(yielded), yielded[Len(yielded)])
  /\ forwarded' = IF gen.at = "node"
                  THEN Append(forwarded,
                              ForwardedValue(inputs.prior.sub[gen.idx], v))
                  ELSE forwarded
  /\ HarvestOutcome(posterior_generator_resume(
       inputs.prior.sub, inputs.k, BasePartial, <<>>, gen, v,
       Len(params) + 1))
  /\ UNCHANGED << registry, nlambda, lastReg, subst, inputs, builds, runs,
                  closureVars, result, prev >>

\* An assembly that does not wait for the driver to exhaust the generator.
AssembleEarly ==
  /\ pc \in {"harvest", "harvested"}
  /\ harvested # <<>>
  /\ closureVars' = harvested
  /\ result' = [kind |-> "joint",
                sur |-> Sur(0, "joint", inputs.prior, 0, FALSE, 0, NoneVal, 0),
                also_track |-> harvested,
                structure |-> Structure(yielded)]
  /\ pc' = "returned"
  /\ gen' = NoGen
  /\ UNCHANGED << registry, nlambda, lastReg, subst, inputs, builds, runs,
                  harvested, params, yielded, forwarded, error, prev >>

\* The recursive call of _cf_surrogate_for_joint_distribution with the
\* harvested variables (lines 415-447) and the return of the build.
Assemble ==
  /\ pc = "harvested"
  /\ closureVars' = harvested
  /\ result' = [kind |-> "joint",
                sur |-> Sur(0, "joint", inputs.prior, 0, FALSE, 0, NoneVal, 0),
                also_track |-> harvested,
                structure |-> Structure(yielded)]
  /\ pc' = "returned"
  /\ gen' = NoGen
  /\ UNCHANGED << registry, nlambda, lastReg, subst, inputs, builds, runs,
                  harvested, params, yielded, forwarded, error, prev >>

\* The consumer's side of one generator resume when the surrogate runs.
RunOutcome(o) ==
  /\ params' = params \o o.created
  /\ gen' = o.gen
  /\ CASE o.out = "yield" ->
            /\ pc' = "running"
            /\ UNCHANGED << runs, error >>
       [] o.out = "return" ->
            /\ pc' = "returned"
            /\ runs' = runs + 1
            /\ UNCHANGED error
       [] OTHER ->
            /\ pc' = "raised"
            /\ error' = o.err
            /\ UNCHANGED runs

\* The joint distribution starts its model: posterior_generator() then next.
\* The recursive call does not pass seed, so the generator's seed is None.
RunStart ==
  /\ pc = "returned"
  /\ result.kind = "joint"
  /\ runs < MaxRuns
  /\ LET o == posterior_generator_start(
                inputs.prior.sub, inputs.k, BasePartial, closureVars,
                GeneratorSeed(0), Len(params) + 1)
     IN  /\ RunOutcome(o)
         /\ yielded' = IF o.out = "yield" THEN << o.sur >> ELSE <<>>
  /\ forwarded' = <<>>
  /\ UNCHANGED << registry, nlambda, lastReg, subst, inputs, builds,
                  closureVars, harvested, result, prev >>

\* The joint distribution sends the value of the node just yielded.
RunSend(v) ==
  /\ pc = "running"
  /\ v.id = Len(yielded)
  /\ LET o == posterior_generator_resume(
                inputs.prior.sub, inputs.k, BasePartial, closureVars, gen, v,
                Len(params) + 1)
     IN  /\ RunOutcome(o)
         /\ yielded' = IF o.out = "yield" THEN Append(yielded, o.sur)
                       ELSE yielded
  /\ forwarded' = IF gen.at = "node"
                  THEN Append(forwarded,
                              ForwardedValue(inputs.prior.sub[gen.idx], v))
                  ELSE forwarded
  /\ UNCHANGED << registry, nlambda, lastReg, subst, inputs, builds,
                  closureVars, harvested, result, prev >>

\* The first call of build_cf_surrogate_posterior.
Build(prior, k, ipw, seed) ==
  /\ pc = "idle"
  /\ build_cf_surrogate_posterior(prior, k, ipw, seed)

\* A further call with the same prior, num_auxiliary_variables and seed.
Rebuild(ipw) ==
  /\ pc \in {"returned", "raised"}
  /\ builds < MaxBuilds
  /\ build_cf_surrogate_posterior(inputs.prior, inputs.k, ipw, inputs.seed)

Next ==
  \/ \E prior \in Priors, k \in 0..MaxK, w \in PriorWeights, s \in Seeds :
       Build(prior, k, w, s)
  \/ HarvestStart
  \/ \E v \in Values : HarvestSend(v)
  \/ Assemble
  \/ RunStart
  \/ \E v \in Values : RunSend(v)

Spec == Init /\ [][Next]_vars

\* Repeated construction from the same arguments.
NextRebuild ==
  \/ Next
  \/ \E w \in PriorWeights : Rebuild(w)

SpecRebuild == Init /\ [][NextRebuild]_vars

\* The registry on its own: registrations and direct substitutions.
NextRegistry ==
  \/ \E c \in RegTypes, fn \in CustomFns : register_cf_substitution_rule(c, "", fn)
  \/ \E p \in Predicates, fn \in CustomFns : register_cf_substitution_rule("", p, fn)
  \/ \E fam \in Families : Substitute(fam)

SpecRegistry == Init /\ [][NextRegistry]_vars

\* Registrations between constructions: a caller registers rules, calls
\* the substitution directly, and builds and runs surrogates of a few
\* priors whose nodes the rules apply to.
FramePriors ==
  { ScalarRoot,
    JointPrior(<< ScalarRoot >>),
    JointPrior(<< Leaf("Exponential", <<>>, TRUE), Leaf("Normal", <<2>>, FALSE) >>) }

NextFrame ==
  \/ \E fn \in CustomFns : register_cf_substitution_rule("TransformedDistribution", "", fn)
  \/ \E fn \in CustomFns : register_cf_substitution_rule("", "isPositive", fn)
  \/ \E fam \in {"HalfNormal", "Exponential", "Normal"} : Substitute(fam)
  \/ \E prior \in FramePriors, k \in 0..MaxK : Build(prior, k, 5, 0)
  \/ HarvestStart
  \/ \E v \in Values : HarvestSend(v)
  \/ Assemble
  \/ RunStart
  \/ \E v \in Values : RunSend(v)

SpecFrame == Init /\ [][NextFrame]_vars

(* ------------------------------ claims --------------------------------- *)
\* The prior of the current build is a model program.
JointBuild == builds > 0 /\ inputs.prior.kind = "joint"

\* The program the current prior yields.
Prog == inputs.prior.sub

\* The current prior is a flat model program of N >= 1 leaf nodes.
FlatBuild == JointBuild /\ IsFlat(Prog) /\ Len(Prog) >= 1

\* build_cf_surrogate_posterior has returned or raised.
BuildEnded == pc \in {"returned", "running", "raised"}

\* A run of the assembled surrogate program has been driven to completion.
RunComplete == pc = "returned" /\ result.kind = "joint" /\ runs > 0

\* C1: for every flat model of N >= 1 leaf nodes built with
\* num_auxiliary_variables = 0, the build returns a surrogate program
\* that, driven to completion, yields exactly N nodes, the j-th being the
\* surrogate built from the j-th original node with that node's event shape.
C1_SurrogateMirrorsFlatModel ==
  (FlatBuild /\ inputs.k = 0 /\ BuildEnded) =>
    /\ error = "none"
    /\ RunComplete =>
         /\ Len(yielded) = Len(Prog)
         /\ \A j \in 1..Len(yielded) :
              /\ yielded[j].src = j
              /\ yielded[j].kind = "base"
              /\ yielded[j].dist.shape = Prog[j].shape

\* C2: for every flat model of N >= 1 leaf nodes built with
\* num_auxiliary_variables = k > 0, the build returns a surrogate program
\* that, driven to completion, yields exactly N + 1 nodes: first one
\* root-tagged auxiliary node of event size k, then the N surrogates of the
\* original nodes in the original order.
C2_AuxiliaryNodeThenFlatModel ==
  (FlatBuild /\ inputs.k > 0 /\ BuildEnded) =>
    /\ error = "none"
    /\ RunComplete =>
         /\ Len(yielded) = Len(Prog) + 1
         /\ yielded[1].kind = "aux"
         /\ yielded[1].root
         /\ yielded[1].dist.shape = << inputs.k >>
         /\ \A j \in 2..Len(yielded) :
              /\ yielded[j].src = j - 1
              /\ yielded[j].kind = "base"
              /\ ~yielded[j].root

\* C3: once the build has returned, running the assembled surrogate program
\* creates no new trainable parameter set: the parameter sets in existence
\* are exactly the ones the harvest pass collected, one per construction
\* site it visited, and every node a run yields is backed by one of them.
C3_RunsCreateNoParameters ==
  (pc \in {"returned", "running"} /\ result.kind = "joint") =>
    /\ Len(params) = Len(harvested)
    /\ \A j \in 1..Len(params) : params[j].id = harvested[j]
    /\ (pc = "running" \/ runs > 0) =>
         \A j \in 1..Len(yielded) : yielded[j].vars = harvested[j]

\* A completed run of a surrogate with an auxiliary stack and a node transform.
C3_Witness ==
  /\ pc = "returned"
  /\ result.kind = "joint"
  /\ runs >= 1
  /\ Len(yielded) >= 2
  /\ Len(params) = Len(yielded)

\* C4: the harvest pass over a flat model of N >= 1 leaf nodes terminates
\* when the inner program completes and returns one parameter set per yielded
\* node, in yield order: N sets when k = 0, N + 1 when k > 0.
C4_HarvestReturnsOneSetPerNode ==
  (FlatBuild /\ runs = 0 /\ pc \in {"harvested", "raised"}) =>
    /\ pc = "harvested"
    /\ Len(harvested) = Len(Prog) + (IF inputs.k > 0 THEN 1 ELSE 0)
    /\ Len(yielded) = Len(harvested)
    /\ \A j \in 1..Len(harvested) : harvested[j] = yielded[j].vars

\* C5: with initial_prior_weight 0.0 or 1.0, on a flat model of N >= 1 leaf
\* nodes and for every num_auxiliary_variables >= 0, the build completes
\* without raising and returns a surrogate.
C5_BoundaryWeightsDoNotRaise ==
  (FlatBuild /\ inputs.ipw \in {0, 10} /\ BuildEnded) =>
    /\ error = "none"
    /\ result.kind = "joint"

\* C7: a build whose prior is a nested structured model ends with a
\* TypeError, and no surrogate is returned.
C7_NestedPriorRaisesTypeError ==
  (JointBuild /\ IsNested(Prog) /\ BuildEnded) =>
    /\ error = "TypeError"
    /\ result.kind = "none"

RuleChain(reg, fam) ==
  LET f[j \in 0..Len(reg)] ==
        IF j = 0 THEN fam
        ELSE IF ConditionHolds(reg[j], f[j - 1])
             THEN SubstitutionResult(reg[j].fn, f[j - 1])
             ELSE f[j - 1]
  IN  f

\* C9: _as_substituted_distribution applies every rule whose condition
\* matches, in registration order, each condition tested on the node as
\* already replaced by the earlier matching rules; a node no rule matches
\* is returned unchanged.
C9_AppliesEveryMatchingRuleInOrder ==
  subst.arg # "" =>
    /\ subst.res = RuleChain(subst.reg, subst.arg)[Len(subst.reg)]
    /\ (\A j \in 1..Len(subst.reg) : ~ConditionHolds(subst.reg[j], subst.arg))
         => subst.res = subst.arg

\* Two rules fired on one node, the later one matching only the replacement.
C9_Witness ==
  /\ subst.arg # ""
  /\ \E i, j \in 1..Len(subst.reg) :
       /\ i < j
       /\ ConditionHolds(subst.reg[i], RuleChain(subst.reg, subst.arg)[i - 1])
       /\ ConditionHolds(subst.reg[j], RuleChain(subst.reg, subst.arg)[j - 1])
       /\ ~ConditionHolds(subst.reg[j], subst.arg)
       /\ subst.res = SubstitutionResult(subst.reg[j].fn, subst.arg)
       /\ subst.res # RuleChain(subst.reg, subst.arg)[i]

\* C10: registering the same predicate object again leaves exactly one rule
\* for it: the registry does not grow, the rule keeps the position of the
\* first registration, and its substitution function is the later one.
C10_ReRegistrationOverwritesInPlace ==
  /\ \A i, j \in 1..Len(registry) :
       RuleKey(registry[i]) = RuleKey(registry[j]) => i = j
  /\ lastReg.existed =>
       /\ Len(registry) = lastReg.sizeBefore
       /\ RuleKey(registry[lastReg.posBefore]) = RuleKey(lastReg.rule)
       /\ registry[lastReg.posBefore].fn = lastReg.rule.fn

\* A predicate registered again with another function, other rules after it.
C10_Witness ==
  /\ lastReg.existed
  /\ lastReg.rule.pred # ""
  /\ lastReg.oldFn # lastReg.rule.fn
  /\ lastReg.posBefore < Len(registry)

\* The node after each rule of reg in turn when a type-tagged rule matches
\* the tagged family only (exact) or the tagged family and the families
\* derived from it (not exact); predicate rules match by their predicate.
TypeTagChain(reg, fam, exact) ==
  LET f[j \in 0..Len(reg)] ==
        IF j = 0 THEN fam
        ELSE LET r == reg[j]
                 matches == IF r.lam > 0
                            THEN IF exact THEN r.cls = f[j - 1]
                                 ELSE r.cls \in SuperClasses(f[j - 1])
                            ELSE PredicateHolds(r.pred, f[j - 1])
             IN  IF matches THEN SubstitutionResult(r.fn, f[j - 1])
                 ELSE f[j - 1]
  IN  f

\* C11 as stated: a rule registered with a type tag substitutes a node only
\* when the node's family is exactly the tagged type; a node of any other
\* family, a sub-family of the tagged type included, passes it unchanged.
C11_TypeTagMatchesExactFamilyOnly ==
  subst.arg # "" =>
    subst.res = TypeTagChain(subst.reg, subst.arg, TRUE)[Len(subst.reg)]

\* C11 amended: a rule registered with a type tag substitutes a node when
\* the node's family is the tagged type or a sub-family of it (the
\* isinstance test the docstring announces); a node of a family that is
\* neither passes the rule unchanged.
C11_TypeTagMatchesSubFamilies ==
  subst.arg # "" =>
    subst.res = TypeTagChain(subst.reg, subst.arg, FALSE)[Len(subst.reg)]

\* A type-tagged rule met a node of a strict sub-family of its tag and the
\* result of the substitution is the rule's replacement.
C11_Witness ==
  /\ subst.arg # ""
  /\ \E j \in 1..Len(subst.reg) :
       LET before == TypeTagChain(subst.reg, subst.arg, FALSE)[j - 1]
       IN  /\ subst.reg[j].lam > 0
           /\ subst.reg[j].cls # before
           /\ subst.reg[j].cls \in SuperClasses(before)
           /\ subst.res = SubstitutionResult(subst.reg[j].fn, before)
           /\ subst.res # TypeTagChain(subst.reg, subst.arg, TRUE)[Len(subst.reg)]

\* Some call of register_cf_substitution_rule accounts for the step.
RegistrationStep ==
  \/ \E c \in RegTypes, fn \in CustomFns : register_cf_substitution_rule(c, "", fn)
  \/ \E p \in Predicates, fn \in CustomFns : register_cf_substitution_rule("", p, fn)

\* C12: after load the registry holds exactly the four default rules
\* (HalfNormal, Uniform, Exponential, Chi2, in that order); afterwards its
\* rules and their order change only in a step of
\* register_cf_substitution_rule: direct substitutions, the harvest pass,
\* the reuse pass and build_cf_surrogate_posterior leave it as it was, and
\* no step other than a new call of build_cf_surrogate_posterior changes
\* the prior model it was given.
C12_RegistryChangesOnlyByRegistration ==
  /\ Len(registry) = 4
  /\ [j \in 1..4 |-> registry[j].cls] =
       << "HalfNormal", "Uniform", "Exponential", "Chi2" >>
  /\ [j \in 1..4 |-> registry[j].fn] =
       << "toTruncatedNormal", "toShiftedScaledBeta", "toGammaRate", "toGammaDf" >>
  /\ [][ /\ registry' # registry => RegistrationStep
         /\ builds' = builds => inputs'.prior = inputs.prior ]_vars

\* A rule registered after load has been used by a direct substitution and
\* by a surrogate that was built and run to completion, and the registry is
\* the four default rules followed by that rule.
C12_Witness ==
  /\ Len(registry) = 5
  /\ SubSeq(registry, 1, 4) = DefaultRules
  /\ registry[5].pred = "isPositive"
  /\ subst.arg = "Exponential"
  /\ subst.reg = registry
  /\ subst.res = "Normal"
  /\ RunComplete
  /\ \E j \in 1..Len(yielded) : yielded[j].dist.family = "Normal"

\* Nodes the walker yields over the whole program of the current prior.
FullLength == Len(Prog) + (IF inputs.k > 0 THEN 1 ELSE 0)

\* C13: when a model program is built without a parameter set, no
\* reuse-mode walker exists and none has taken a step while the harvest
\* pass is under way; once one exists it holds the complete harvested
\* sequence, one set per node the exhausted inner program yielded; and
\* after the first reuse step no harvest step follows and the harvested
\* sequence no longer changes.
C13_HarvestCompletesBeforeReuse ==
  /\ [](JointBuild =>
         /\ pc \in {"harvest", "harvested"} =>
              /\ closureVars = <<>>
              /\ result.kind = "none"
              /\ runs = 0
         /\ (closureVars # <<>> \/ pc = "running" \/ result.kind = "joint") =>
              /\ pc \in {"returned", "running", "raised"}
              /\ closureVars = harvested
              /\ Len(harvested) = FullLength)
  /\ [][(pc \in {"returned", "running"} /\ builds' = builds) =>
          /\ pc' \notin {"harvest", "harvested"}
          /\ harvested' = harvested
          /\ closureVars' = closureVars]_vars

\* The reuse-mode walker of a two-node model with an auxiliary node is in
\* the middle of a run, holding the three harvested parameter sets.
C13_Witness ==
  /\ JointBuild
  /\ pc = "running"
  /\ Len(Prog) = 2
  /\ Len(yielded) = 2
  /\ Len(closureVars) = 3
  /\ closureVars = harvested

\* The parameter set with identity id, as constructed.
ParamOf(id) == params[CHOOSE i \in 1..Len(params) : params[i].id = id]

\* A reuse-mode walker has yielded nodes.
InReusePass ==
  /\ JointBuild
  /\ result.kind = "joint"
  /\ pc = "running" \/ (pc = "returned" /\ runs > 0)

\* C14: in the reuse pass the walker fills slot 0 with the harvested
\* auxiliary stack (k > 0) and gives the surrogate of the j-th original node
\* the parameter set of slot j + 1 (slot j when k = 0), which is the set the
\* harvest pass constructed when it yielded that node; the base builder
\* returns the supplied set unchanged and no parameter set is constructed.
C14_ReusePassUsesHarvestedSlots ==
  InReusePass =>
    /\ Len(params) = Len(harvested)
    /\ \A j \in 1..Len(yielded) :
         LET s == yielded[j]
             shift == IF inputs.k > 0 THEN 1 ELSE 0
         IN  /\ s.vars = harvested[j]
             /\ s.vars = result.also_track[j]
             /\ (j = 1 /\ inputs.k > 0) =>
                  /\ s.kind = "aux"
                  /\ ParamOf(s.vars).site = "aux"
                  /\ ParamOf(s.vars).width = inputs.k
             /\ (j > shift) =>
                  /\ s.kind = "base"
                  /\ s.src = j - shift
                  /\ result.structure[j].src = j - shift
                  /\ ParamOf(s.vars).site = "base"

\* A completed run over an auxiliary node, a scalar node and a vector node,
\* each on its own harvested parameter set.
C14_Witness ==
  /\ InReusePass
  /\ runs > 0
  /\ Len(yielded) = 3
  /\ yielded[1].kind = "aux"
  /\ Prog[1].shape = <<>>
  /\ Prog[2].shape = <<2>>
  /\ yielded[2].vars # yielded[1].vars
  /\ yielded[3].vars # yielded[2].vars
  /\ ParamOf(yielded[2].vars).width # ParamOf(yielded[3].vars).width

\* Surrogates of original nodes among the nodes yielded so far.
OriginalYields == Cardinality({ j \in 1..Len(yielded) : yielded[j].src > 0 })

\* The walker is suspended at a yield.
Suspended ==
  \/ pc = "harvest" /\ gen.at \in {"aux", "node"}
  \/ pc = "running"

\* C15: in every pass the walker yields the surrogates of the original
\* nodes one at a time and in program order; while it is suspended on the
\* surrogate of a node the inner program has been resumed once for each
\* earlier node and not yet for this one, and when the pass is complete once
\* for every node; the j-th resume carries the value received for the
\* surrogate of the j-th node, so never the auxiliary node's value.
C15_LockstepResumes ==
  JointBuild =>
    LET shift == IF inputs.k > 0 THEN 1 ELSE 0
    IN  /\ \A j \in 1..Len(yielded) :
             /\ j > shift => yielded[j].src = j - shift
             /\ j <= shift => yielded[j].src = 0
        /\ \A j \in 1..Len(forwarded) :
             /\ forwarded[j].id = j + shift
             /\ j + shift <= Len(yielded)
        /\ (Suspended /\ OriginalYields = 0) => forwarded = <<>>
        /\ (Suspended /\ OriginalYields > 0) =>
             Len(forwarded) = OriginalYields - 1
        /\ pc \in {"harvested", "returned"} =>
             /\ Len(forwarded) = OriginalYields
             /\ OriginalYields = Len(Prog)

\* A run is suspended on the surrogate of the second node: the inner
\* program has been resumed once, with the value of the first node's
\* surrogate, and the auxiliary value went to the walker alone.
C15_Witness ==
  /\ JointBuild
  /\ pc = "running"
  /\ inputs.k > 0
  /\ Len(yielded) = 3
  /\ Len(forwarded) = 1
  /\ forwarded[1].id = 2
  /\ gen.gaux = Bound([isList |-> FALSE, id |-> 1])

\* C16 as stated: the value sent into the inner program at the step of the
\* j-th node is the whole value the walker received for that node's
\* surrogate, altered at most by a squeeze of its trailing axis, and that
\* only when the value is multi-dimensional and the node's event has rank 0.
C16_ForwardsReceivedValueExceptSqueeze ==
  JointBuild =>
    \A j \in 1..Len(forwarded) :
      /\ forwarded[j].id = forwarded[j].recv.id
      /\ forwarded[j].part = "whole"
      /\ forwarded[j].squeezed =>
           (forwarded[j].recv.isList /\ Prog[j].shape = <<>>)

\* C16 amended: a received value that is not a list is sent unchanged; of
\* a received list (the sample of a Split surrogate, k > 0) only element 0
\* is sent, the node's own part without the auxiliary part, and its
\* trailing axis is squeezed exactly when the original node's event has
\* rank 0.
C16_ForwardsNodePartOfList ==
  JointBuild =>
    \A j \in 1..Len(forwarded) :
      LET f == forwarded[j]
      IN  /\ f.id = f.recv.id
          /\ f.recv.id = j + (IF inputs.k > 0 THEN 1 ELSE 0)
          /\ IF f.recv.isList
             THEN /\ f.part = "elem0"
                  /\ f.squeezed <=> (Prog[j].shape = <<>>)
             ELSE /\ f.part = "whole"
                  /\ ~f.squeezed

\* A pass over a scalar node and a vector node, both answered with lists:
\* element 0 went to the inner program twice, squeezed for the scalar node
\* only.
C16_Witness ==
  /\ JointBuild
  /\ pc \in {"harvested", "returned"}
  /\ Len(forwarded) = 2
  /\ forwarded[1].recv.isList /\ forwarded[1].part = "elem0" /\ forwarded[1].squeezed
  /\ forwarded[2].recv.isList /\ forwarded[2].part = "elem0" /\ ~forwarded[2].squeezed

\* Every node is dispatched without its root tag, and with k > 0 the
\* auxiliary node is the only root-tagged node a pass yields.
RootTagsWithAuxiliary ==
  JointBuild =>
    \A j \in 1..Len(yielded) :
      /\ ~yielded[j].dist.root
      /\ inputs.k > 0 => (yielded[j].root <=> (j = 1 /\ yielded[j].kind = "aux"))

\* C17: every node the inner program yields is dispatched without its root
\* tag; with k > 0 the auxiliary node is the only root-tagged node a pass
\* yields; with k = 0 the walker yields for the first node of a flat model
\* (event rank at most 1) a surrogate that is root-tagged if and only if
\* that node was.
C17_RootTagFollowsOriginalNode ==
  /\ RootTagsWithAuxiliary
  /\ (FlatBuild /\ inputs.k = 0 /\ Len(Prog[1].shape) <= 1 /\ BuildEnded) =>
       /\ Len(yielded) >= 1
       /\ yielded[1].src = 1
       /\ yielded[1].root <=> Prog[1].root

\* C18: with k > 0, in every pass the auxiliary vector is unset until the
\* walker is resumed from the leading auxiliary node, is then the value
\* received for that node, and stays that value: the surrogate builder of
\* every later node is given it, and no later resume changes it.
C18_AuxiliaryVectorSetOnceAndShared ==
  /\ []((JointBuild /\ inputs.k > 0) =>
          /\ gen.at = "aux" => gen.gaux = Unbound
          /\ gen.at = "node" =>
               /\ gen.gaux.st = "value"
               /\ gen.gaux.v.id = 1
               /\ yielded[Len(yielded)].gaux = gen.gaux
          /\ \A j \in 2..Len(yielded) :
               /\ yielded[j].gaux.st = "value"
               /\ yielded[j].gaux.v.id = 1
               /\ yielded[j].gaux = yielded[2].gaux)
  /\ [][(gen.at = "node" /\ gen'.at = "node") => gen'.gaux = gen.gaux]_vars

\* The surrogates of two nodes were built in one run from the value
\* received for the auxiliary node, the first node's own value having been
\* received in between.
C18_Witness ==
  /\ JointBuild
  /\ inputs.k > 0
  /\ pc = "running"
  /\ Len(yielded) = 3
  /\ forwarded # <<>>
  /\ forwarded[1].recv.id = 2
  /\ yielded[3].gaux.st = "value"
  /\ yielded[3].gaux.v.id = 1
  /\ yielded[3].gaux = yielded[2].gaux

\* C19: a model whose program contains a node that is itself a model
\* program is built without error; the pass yields one joint surrogate at
\* that node's position, after the top-level auxiliary node when k > 0 and
\* with no auxiliary node of the sub-program, and that node takes one slot
\* of the parent's parameter sequence.
C19_NestedProgramYieldsOneJointNode ==
  (JointBuild /\ IsNested(Prog) /\ BuildEnded) =>
    LET shift == IF inputs.k > 0 THEN 1 ELSE 0
    IN  /\ error = "none"
        /\ result.kind = "joint"
        /\ Len(result.structure) = Len(Prog) + shift
        /\ Len(harvested) = Len(Prog) + shift
        /\ \A j \in 1..Len(Prog) :
             Prog[j].kind = "joint" =>
               /\ result.structure[j + shift].src = j
               /\ result.structure[j + shift].kind = "joint"

\* The transform constructed for node has the width and the count of
\* ungated leading dimensions that k and the node's event shape call for.
WidthAsDocumented(p, node) ==
  /\ p.site = "base"
  /\ p.width = reduce_prod(node.shape) + inputs.k
  /\ p.gate = reduce_prod(node.shape)

\* C20: every transform the base builder constructs, for a node whose event
\* shape has rank 0, 1 or 2, has width equal to the product of the node's
\* event dimensions plus k and leaves as many leading dimensions ungated as
\* the event has elements (1 for a zero-rank event); the construction does
\* not fail on any of these ranks.
C20_WidthIsEventSizePlusK ==
  /\ (builds > 0 /\ inputs.prior.kind = "leaf" /\ inputs.k = 0) =>
       /\ error = "none"
       /\ Len(params) = 1
       /\ WidthAsDocumented(params[1], inputs.prior)
  /\ (FlatBuild /\ inputs.k > 0) =>
       /\ error # "TypeError"
       /\ \A i \in 2..Len(params) : WidthAsDocumented(params[i], Prog[i - 1])

\* C21: whenever the walker dispatches a node, the auxiliary vector it
\* reads is defined: the value received for the leading node when k > 0,
\* the caller's argument (None at top level) when k = 0; no pass ends
\* because the variable was read before it was assigned.
C21_AuxiliaryVectorDefinedWhenRead ==
  /\ error # "UnboundLocalError"
  /\ (JointBuild /\ gen.at = "node") =>
       IF inputs.k > 0
       THEN gen.gaux.st = "value" /\ gen.gaux.v.id = 1
       ELSE gen.gaux = NoneVal

\* Rules registered after load.
ExtraRules(reg) == SubSeq(reg, Len(DefaultRules) + 1, Len(reg))

\* C22: the registry holds at most one rule per type tag, however often
\* the tag is registered; and when the only rules added after load are
\* registrations of the tag Gamma, a Gamma node is substituted once, by the
\* substitution function of the latest of them.
C22_TypeTagRegisteredTwiceIsOneRule ==
  /\ \A i, j \in 1..Len(registry) :
       (registry[i].lam > 0 /\ registry[j].lam > 0
          /\ registry[i].cls = registry[j].cls) => i = j
  /\ (subst.arg = "Gamma" /\ ExtraRules(subst.reg) # <<>>
        /\ \A j \in 1..Len(ExtraRules(subst.reg)) :
             /\ ExtraRules(subst.reg)[j].lam > 0
             /\ ExtraRules(subst.reg)[j].cls = "Gamma") =>
       subst.res = SubstitutionResult(
                     ExtraRules(subst.reg)[Len(ExtraRules(subst.reg))].fn, "Gamma")

\* C23: a build with k = 0 of a model program that completes without
\* yielding any node ends without an error: the harvest pass returns an
\* empty parameter sequence, a surrogate is returned, and a run of it
\* yields no node.
C23_EmptyProgramTerminatesNormally ==
  (JointBuild /\ Prog = <<>> /\ inputs.k = 0 /\ BuildEnded) =>
    /\ error = "none"
    /\ pc # "raised"
    /\ result.kind = "joint"
    /\ harvested = <<>>
    /\ params = <<>>
    /\ yielded = <<>>

====
